---------------------------- MODULE Spec2Model ----------------------------
(***************************************************************************)
(* Model of gemini_2_speakers_tts.py: speaker extraction, voice selection, *)
(* media-type parsing, WAV wrapping and the streaming loop of generate.    *)
(*                                                                         *)
(* A Python str is a sequence of one-character strings, a bytes object a   *)
(* sequence of integers 0..255.  Python's None is the value None below.    *)
(***************************************************************************)
EXTENDS Integers, Sequences, FiniteSets, TLC

VARIABLES
    \* extract_speakers applied to a text
    e_text, e_result,
    \* select_voices_for_speakers applied to a suggestion response
    catalog, speaker1_name, speaker2_name, response, selected,
    \* parse_audio_mime_type / convert_to_wav applied to a chunk
    mime_type, audio_data, parameters, wav,
    \* one run of the program (__main__ and generate)
    pc, api_key, file_exists, output_file, user_prompt, speaker1, speaker2,
    file_name, speaker_voices, speaker_voice_configs, disk, writes, chunks,
    exit_code, outcome, calls

vars == <<e_text, e_result,
          catalog, speaker1_name, speaker2_name, response, selected,
          mime_type, audio_data, parameters, wav,
          pc, api_key, file_exists, output_file, user_prompt, speaker1,
          speaker2, file_name, speaker_voices, speaker_voice_configs, disk,
          writes, chunks, exit_code, outcome, calls>>

extractVars == <<e_text, e_result>>
voiceVars == <<catalog, speaker1_name, speaker2_name, response, selected>>
mimeVars == <<mime_type, audio_data, parameters, wav>>
runVars == <<pc, api_key, file_exists, output_file, user_prompt, speaker1,
             speaker2, file_name, speaker_voices, speaker_voice_configs,
             disk, writes, chunks, exit_code, outcome, calls>>

\* Python's None: a value no str (sequence of one-character strings) equals.
None == <<"None">>
\* The value of e_result before extract_speakers has run.
NotRun == <<"NotRun">>

-----------------------------------------------------------------------------
(* Bounds of the model *)

\* lines of a dialogue text
MaxScriptLines == 4
\* lines of a suggestion response
MaxResponseLines == 2
\* catalog entries a suggestion response may name
MaxVoiceChoices == 2
\* ';'-separated segments of a media type
MaxSegments == 3
\* bytes of a chunk payload
MaxPayload == 2
\* chunks the generation service streams in one run
MaxChunks == 3

-----------------------------------------------------------------------------
(* Python str operations *)

Range(s) == {s[i] : i \in 1..Len(s)}

UpperChars == <<"A","B","C","D","E","F","G","H","I","J","K","L","M",
                "N","O","P","Q","R","S","T","U","V","W","X","Y","Z">>
LowerChars == <<"a","b","c","d","e","f","g","h","i","j","k","l","m",
                "n","o","p","q","r","s","t","u","v","w","x","y","z">>

\* str.lower / str.upper on one character
ToLower == [c \in Range(UpperChars) |->
              LowerChars[CHOOSE i \in 1..26 : UpperChars[i] = c]]
ToUpper == [c \in Range(LowerChars) |->
              UpperChars[CHOOSE i \in 1..26 : LowerChars[i] = c]]
LowerChar(c) == IF c \in DOMAIN ToLower THEN ToLower[c] ELSE c
UpperChar(c) == IF c \in DOMAIN ToUpper THEN ToUpper[c] ELSE c

\* str.lower()
Lower(s) == [i \in 1..Len(s) |-> LowerChar(s[i])]
Upper(s) == [i \in 1..Len(s) |-> UpperChar(s[i])]

\* the characters str.strip() removes
Whitespace == {" ", "\t", "\n", "\r"}

RECURSIVE LStrip(_)
LStrip(s) ==
    IF s # <<>> /\ Head(s) \in Whitespace THEN LStrip(Tail(s)) ELSE s

RECURSIVE RStrip(_)
RStrip(s) ==
    IF s # <<>> /\ s[Len(s)] \in Whitespace
    THEN RStrip(SubSeq(s, 1, Len(s) - 1))
    ELSE s

\* str.strip()
Strip(s) == RStrip(LStrip(s))

\* s.startswith(p)
StartsWith(s, p) == Len(p) <= Len(s) /\ SubSeq(s, 1, Len(p)) = p

\* sub in s
Contains(s, sub) ==
    \E i \in 1..(Len(s) - Len(sub) + 1) : SubSeq(s, i, i + Len(sub) - 1) = sub

\* the index of the first occurrence of character c in s (0: none)
RECURSIVE FindFrom(_, _, _)
FindFrom(s, c, i) ==
    IF i > Len(s) THEN 0
    ELSE IF s[i] = c THEN i
    ELSE FindFrom(s, c, i + 1)

Find(s, c) == FindFrom(s, c, 1)

\* s.split(c, 1): one element when c does not occur, else two
Split1(s, c) ==
    LET i == Find(s, c)
    IN  IF i = 0 THEN <<s>>
        ELSE <<SubSeq(s, 1, i - 1), SubSeq(s, i + 1, Len(s))>>

\* s.split(c): always at least one element
RECURSIVE Split(_, _)
Split(s, c) ==
    LET i == Find(s, c)
    IN  IF i = 0 THEN <<s>>
        ELSE <<SubSeq(s, 1, i - 1)>> \o Split(SubSeq(s, i + 1, Len(s)), c)

\* c.join(parts)
RECURSIVE Join(_, _)
Join(parts, c) ==
    IF parts = <<>> THEN <<>>
    ELSE IF Len(parts) = 1 THEN parts[1]
    ELSE parts[1] \o <<c>> \o Join(Tail(parts), c)

\* s.replace(a, b) for single characters
Replace(s, a, b) == [i \in 1..Len(s) |-> IF s[i] = a THEN b ELSE s[i]]

\* str.splitlines(): "\n", "\r" and "\r\n" end a line; no empty last line
RECURSIVE SplitLinesFrom(_, _, _, _)
SplitLinesFrom(s, i, cur, acc) ==
    IF i > Len(s) THEN (IF cur # <<>> THEN Append(acc, cur) ELSE acc)
    ELSE IF s[i] = "\r" /\ i < Len(s) /\ s[i + 1] = "\n"
         THEN SplitLinesFrom(s, i + 2, <<>>, Append(acc, cur))
    ELSE IF s[i] \in {"\n", "\r"}
         THEN SplitLinesFrom(s, i + 1, <<>>, Append(acc, cur))
    ELSE SplitLinesFrom(s, i + 1, Append(cur, s[i]), acc)

SplitLines(s) == SplitLinesFrom(s, 1, <<>>, <<>>)

\* all sequences over S of length at most n
SeqsUpTo(S, n) == UNION {[1..k -> S] : k \in 0..n}

-----------------------------------------------------------------------------
(* extract_speakers *)

\* ExtractStep without the test "name not in seen"
ExtractStep_NoSeenTest(seen, line) ==
    IF ":" \in Range(line)
    THEN LET name == Strip(Split1(line, ":")[1])
         IN  IF name # <<>> THEN Append(seen, name) ELSE seen
    ELSE seen

\* the body of the for loop at one line: the new value of seen
ExtractStep(seen, line) ==
    IF ":" \in Range(line)
    THEN LET name == Strip(Split1(line, ":")[1])
         IN  IF name # <<>> /\ name \notin Range(seen)
             THEN Append(seen, name)
             ELSE seen
    ELSE seen

\* the for loop from line i on, with its early return and its fallback
RECURSIVE ExtractLoop(_, _, _)
ExtractLoop(lines, i, seen) ==
    IF i > Len(lines)
    THEN (IF seen # <<>> THEN <<seen[1], None>> ELSE <<None, None>>)
    ELSE LET seen2 == ExtractStep(seen, lines[i])
         IN  IF ":" \in Range(lines[i]) /\ Len(seen2) = 2
             THEN <<seen2[1], seen2[2]>>
             ELSE ExtractLoop(lines, i + 1, seen2)

extract_speakers(text) == ExtractLoop(SplitLines(text), 1, <<>>)

\* the dialogue lines the texts of the model are made of
ScriptLines ==
    { <<"A",":","x">>,
      <<"b",":","y">>,
      <<" ","A"," ",":"," ","x">>,
      <<"a",":","z">>,
      <<":","x">>,
      <<" ",":"," ">>,
      <<"x">>,
      <<>>,
      <<"A",":","x",":","y">>,
      <<"c",":","x","\r","b",":","y">> }

ScriptTexts == {Join(ls, "\n") : ls \in SeqsUpTo(ScriptLines, MaxScriptLines)}


-----------------------------------------------------------------------------
(* Python dict with str keys: a sequence of <<key, value>> pairs, one per   *)
(* key, in insertion order.                                                 *)

EmptyDict == <<>>
DictKeys(d) == {d[i][1] : i \in 1..Len(d)}
DictGet(d, k) == d[CHOOSE i \in 1..Len(d) : d[i][1] = k][2]
\* d[k] = v
DictSet(d, k, v) ==
    IF k \in DictKeys(d)
    THEN [i \in 1..Len(d) |-> IF d[i][1] = k THEN <<k, v>> ELSE d[i]]
    ELSE Append(d, <<k, v>>)

\* list.index(x): the first position of x
Index(s, x) == CHOOSE i \in 1..Len(s) : s[i] = x /\ \A j \in 1..(i - 1) : s[j] # x

-----------------------------------------------------------------------------
(* get_available_voices: the catalog, entries <<name, style, gender>> *)

get_available_voices ==
    <<
       <<<<"Z","e","p","h","y","r">>, "Bright", "Female">>,
       <<<<"P","u","c","k">>, "Upbeat", "Male">>,
       <<<<"C","h","a","r","o","n">>, "Informative", "Male">>,
       <<<<"K","o","r","e">>, "Firm", "Female">>,
       <<<<"F","e","n","r","i","r">>, "Excitable", "Male">>,
       <<<<"L","e","d","a">>, "Youthful", "Female">>,
       <<<<"O","r","u","s">>, "Firm", "Male">>,
       <<<<"A","o","e","d","e">>, "Breezy", "Female">>,
       <<<<"C","a","l","l","i","r","r","h","o","e">>, "Easy-going", "Female">>,
       <<<<"A","u","t","o","n","o","e">>, "Bright", "Female">>,
       <<<<"E","n","c","e","l","a","d","u","s">>, "Breathy", "Male">>,
       <<<<"I","a","p","e","t","u","s">>, "Clear", "Male">>,
       <<<<"U","m","b","r","i","e","l">>, "Easy-going", "Male">>,
       <<<<"A","l","g","i","e","b","a">>, "Smooth", "Male">>,
       <<<<"D","e","s","p","i","n","a">>, "Smooth", "Female">>,
       <<<<"E","r","i","n","o","m","e">>, "Clear", "Female">>,
       <<<<"A","l","g","e","n","i","b">>, "Gravelly", "Male">>,
       <<<<"R","a","s","a","l","g","e","t","h","i">>, "Informative", "Male">>,
       <<<<"L","a","o","m","e","d","e","i","a">>, "Upbeat", "Female">>,
       <<<<"A","c","h","e","r","n","a","r">>, "Soft", "Female">>,
       <<<<"A","l","n","i","l","a","m">>, "Firm", "Male">>,
       <<<<"S","c","h","e","d","a","r">>, "Even", "Male">>,
       <<<<"G","a","c","r","u","x">>, "Mature", "Female">>,
       <<<<"P","u","l","c","h","e","r","r","i","m","a">>, "Forward", "Female">>,
       <<<<"A","c","h","i","r","d">>, "Friendly", "Male">>,
       <<<<"Z","u","b","e","n","e","l","g","e","n","u","b","i">>, "Casual", "Male">>,
       <<<<"V","i","n","d","e","m","i","a","t","r","i","x">>, "Gentle", "Female">>,
       <<<<"S","a","d","a","c","h","b","i","a">>, "Lively", "Male">>,
       <<<<"S","a","d","a","l","t","a","g","e","r">>, "Knowledgeable", "Male">>,
       <<<<"S","u","l","a","f","a","t">>, "Warm", "Female">>
    >>

\* voice_names, voice_names_lower, male_voices, female_voices
voice_names(available_voices) ==
    [i \in 1..Len(available_voices) |-> available_voices[i][1]]
voice_names_lower(available_voices) ==
    [i \in 1..Len(available_voices) |-> Lower(available_voices[i][1])]
IsMale(v) == v[3] = "Male"
IsFemale(v) == v[3] = "Female"
male_voices(available_voices) ==
    voice_names(SelectSeq(available_voices, IsMale))
female_voices(available_voices) ==
    voice_names(SelectSeq(available_voices, IsFemale))

-----------------------------------------------------------------------------
(* select_voices_for_speakers *)

\* the voice a response line names, resolved against the catalog: the
\* catalog's own spelling of it, or None when the catalog has no such voice
ResolveVoice(available_voices, line) ==
    LET voice == Strip(Split1(line, ":")[2])
        voice_lower == Lower(voice)
        lowered == voice_names_lower(available_voices)
    IN  IF voice_lower \in Range(lowered)
        THEN voice_names(available_voices)[Index(lowered, voice_lower)]
        ELSE None

\* the body of the parsing loop at one line: the new speaker_voices
ParseLine(available_voices, voices, line, s1, s2) ==
    IF StartsWith(Lower(line), Lower(s1) \o <<":">>)
    THEN LET v == ResolveVoice(available_voices, line)
         IN  IF v # None THEN DictSet(voices, s1, v) ELSE voices
    ELSE IF StartsWith(Lower(line), Lower(s2) \o <<":">>)
    THEN LET v == ResolveVoice(available_voices, line)
         IN  IF v # None THEN DictSet(voices, s2, v) ELSE voices
    ELSE voices

RECURSIVE ParseLines(_, _, _, _, _, _)
ParseLines(available_voices, voices, lines, i, s1, s2) ==
    IF i > Len(lines) THEN voices
    ELSE ParseLines(available_voices,
                    ParseLine(available_voices, voices, lines[i], s1, s2),
                    lines, i + 1, s1, s2)

\* the gender of speaker 1's voice, "Male" when the catalog has no such name
Voice1Gender(available_voices, name) ==
    IF \E i \in 1..Len(available_voices) : available_voices[i][1] = name
    THEN available_voices[Index(voice_names(available_voices), name)][3]
    ELSE "Male"

\* the fallback for speaker 2, lines 146-161
FallbackSpeaker2(available_voices, voices, s1, s2) ==
    IF s2 \in DictKeys(voices) THEN voices
    ELSE LET males == male_voices(available_voices)
             females == female_voices(available_voices)
             names == voice_names(available_voices)
             voice1 == DictGet(voices, s1)
             others == SelectSeq(names, LAMBDA n : n # voice1)
         IN  IF Voice1Gender(available_voices, voice1) = "Male"
                /\ females # <<>>
             THEN DictSet(voices, s2, females[1])
             ELSE IF males # <<>>
             THEN DictSet(voices, s2, males[1])
             ELSE IF others # <<>>
             THEN DictSet(voices, s2, others[1])
             ELSE DictSet(voices, s2, voice1)

\* the function from the suggestion service's response text on: the parse
\* and the fallbacks.  male_voices[0] raises IndexError on a catalog with no
\* male voice.
select_voices_for_speakers(available_voices, response_text, s1, s2) ==
    LET text == Strip(response_text)
        lines == Split(text, "\n")
        parsed == ParseLines(available_voices, EmptyDict, lines, 1, s1, s2)
        males == male_voices(available_voices)
    IN  IF s1 \notin DictKeys(parsed) /\ males = <<>>
        THEN [status |-> "IndexError", voices |-> EmptyDict]
        ELSE LET with1 == IF s1 \notin DictKeys(parsed)
                          THEN DictSet(parsed, s1, males[1])
                          ELSE parsed
             IN  [status |-> "ok",
                  voices |-> FallbackSpeaker2(available_voices, with1, s1, s2)]

-----------------------------------------------------------------------------
(* the inputs of select_voices_for_speakers in the model *)

\* Catalogs: the catalog of the program, and the smaller ones a substituted
\* catalog gives (its first entries, of both genders or of one)
MaleCatalog == SelectSeq(get_available_voices, IsMale)
FemaleCatalog == SelectSeq(get_available_voices, IsFemale)
Catalogs ==
    {get_available_voices}
    \cup {SubSeq(c, 1, n) :
            c \in {get_available_voices, MaleCatalog, FemaleCatalog},
            n \in 1..MaxVoiceChoices}

SpeakerNames == { <<"A","l">>, <<"B","o">>, <<"a","l">> }

\* what a response line may give as a voice: a catalog name as written, in
\* lower case, or a name the catalog does not have
VoiceTokens(available_voices) ==
    LET k == IF Len(available_voices) < MaxVoiceChoices
             THEN Len(available_voices) ELSE MaxVoiceChoices
    IN  {available_voices[i][1] : i \in 1..k}
        \cup {Lower(available_voices[i][1]) : i \in 1..k}
        \cup { <<"N","o">> }

ResponseLines(available_voices, s1, s2) ==
    {n \o <<":", " ">> \o v :
        n \in {s1, s2, Upper(s1), Upper(s2)},
        v \in VoiceTokens(available_voices)}
    \cup { <<"o","k">> }

Responses(available_voices, s1, s2) ==
    {Join(ls, "\n") :
        ls \in SeqsUpTo(ResponseLines(available_voices, s1, s2),
                        MaxResponseLines)}

-----------------------------------------------------------------------------
(* int(str): surrounding whitespace, an optional sign, decimal digits with  *)
(* single underscores between them; anything else raises ValueError         *)

Digits == <<"0","1","2","3","4","5","6","7","8","9">>
IsDigit(c) == \E i \in 1..10 : Digits[i] = c
DigitValue(c) == (CHOOSE i \in 1..10 : Digits[i] = c) - 1

RECURSIVE DigitsValue(_, _)
DigitsValue(s, acc) ==
    IF s = <<>> THEN acc
    ELSE IF Head(s) = "_" THEN DigitsValue(Tail(s), acc)
    ELSE DigitsValue(Tail(s), acc * 10 + DigitValue(Head(s)))

IsNumeral(s) ==
    /\ s # <<>>
    /\ \A i \in 1..Len(s) : IsDigit(s[i]) \/ s[i] = "_"
    /\ IsDigit(s[1]) /\ IsDigit(s[Len(s)])
    /\ \A i \in 1..(Len(s) - 1) : ~(s[i] = "_" /\ s[i + 1] = "_")

\* [ok |-> FALSE] stands for ValueError
ParseInt(s) ==
    LET t == Strip(s)
        signed == t # <<>> /\ Head(t) \in {"+", "-"}
        body == IF signed THEN Tail(t) ELSE t
    IN  IF IsNumeral(body)
        THEN [ok |-> TRUE,
              value |-> IF signed /\ Head(t) = "-"
                        THEN 0 - DigitsValue(body, 0)
                        ELSE DigitsValue(body, 0)]
        ELSE [ok |-> FALSE, value |-> 0]

-----------------------------------------------------------------------------
(* parse_audio_mime_type *)

DefaultBitsPerSample == 16
DefaultRate == 24000

RateEq == <<"r","a","t","e","=">>
AudioL == <<"a","u","d","i","o","/","L">>

\* ParseParam with a failed parse putting the default back
ParseParam_ResetOnFailure(p, segment) ==
    LET param == Strip(segment)
    IN  IF StartsWith(Lower(param), RateEq)
        THEN LET r == ParseInt(Split1(param, "=")[2])
             IN  [p EXCEPT !.rate = IF r.ok THEN r.value ELSE DefaultRate]
        ELSE IF Contains(param, AudioL)
        THEN LET b == ParseInt(Split1(param, "L")[2])
             IN  [p EXCEPT !.bits_per_sample =
                               IF b.ok THEN b.value ELSE DefaultBitsPerSample]
        ELSE p

\* the body of the for loop at one segment: the new (bits_per_sample, rate)
ParseParam(p, segment) ==
    LET param == Strip(segment)
    IN  IF StartsWith(Lower(param), RateEq)
        THEN LET r == ParseInt(Split1(param, "=")[2])
             IN  IF r.ok THEN [p EXCEPT !.rate = r.value] ELSE p
        ELSE IF Contains(param, AudioL)
        THEN LET b == ParseInt(Split1(param, "L")[2])
             IN  IF b.ok THEN [p EXCEPT !.bits_per_sample = b.value] ELSE p
        ELSE p

RECURSIVE ParseParams(_, _, _)
ParseParams(p, parts, i) ==
    IF i > Len(parts) THEN p
    ELSE ParseParams(ParseParam(p, parts[i]), parts, i + 1)

parse_audio_mime_type(mime) ==
    ParseParams([bits_per_sample |-> DefaultBitsPerSample,
                 rate |-> DefaultRate],
                Split(mime, ";"), 1)

-----------------------------------------------------------------------------
(* convert_to_wav: struct.pack("<4sI4s4sIHHIIHH4sI", ...) + audio_data *)

\* struct.pack raises struct.error for a value outside its field
FitsU16(v) == v >= 0 /\ v <= 65535
\* 0 <= v <= 2^32 - 1, written on the two 16-bit halves of v
FitsU32(v) == v >= 0 /\ v \div 65536 <= 65535

U16LE(v) == <<v % 256, v \div 256>>
U32LE(v) ==
    <<v % 256, (v \div 256) % 256, (v \div 65536) % 256, v \div 16777216>>

\* b"RIFF", b"WAVE", b"fmt ", b"data"
RIFF == <<82, 73, 70, 70>>
WAVE == <<87, 65, 86, 69>>
FMT == <<102, 109, 116, 32>>
DATA == <<100, 97, 116, 97>>

\* the header fields computed at lines 298-305
WavFields(data, mime) ==
    LET p == parse_audio_mime_type(mime)
        num_channels == 1
        bytes_per_sample == p.bits_per_sample \div 8
        block_align == num_channels * bytes_per_sample
    IN  [bits_per_sample |-> p.bits_per_sample,
         sample_rate |-> p.rate,
         num_channels |-> num_channels,
         data_size |-> Len(data),
         block_align |-> block_align,
         byte_rate |-> p.rate * block_align,
         chunk_size |-> 36 + Len(data)]

convert_to_wav(data, mime) ==
    LET f == WavFields(data, mime)
    IN  IF /\ FitsU32(f.chunk_size) /\ FitsU32(f.sample_rate)
           /\ FitsU32(f.byte_rate) /\ FitsU32(f.data_size)
           /\ FitsU16(f.num_channels) /\ FitsU16(f.block_align)
           /\ FitsU16(f.bits_per_sample)
        THEN [status |-> "ok",
              data |-> RIFF \o U32LE(f.chunk_size) \o WAVE \o FMT
                       \o U32LE(16) \o U16LE(1) \o U16LE(f.num_channels)
                       \o U32LE(f.sample_rate) \o U32LE(f.byte_rate)
                       \o U16LE(f.block_align) \o U16LE(f.bits_per_sample)
                       \o DATA \o U32LE(f.data_size) \o data]
        ELSE [status |-> "struct.error", data |-> <<>>]

-----------------------------------------------------------------------------
(* the inputs of parse_audio_mime_type and convert_to_wav in the model *)

MimeSegments ==
    { <<"a","u","d","i","o","/","L","1","6">>,
      <<"a","u","d","i","o","/","L","2","4">>,
      <<"a","u","d","i","o","/","L","1","2">>,
      <<"a","u","d","i","o","/","L","x">>,
      <<"r","a","t","e","=","4","4","1","0","0">>,
      <<" ","R","A","T","E","=","8","0","0","0">>,
      <<"r","a","t","e","=","x">>,
      <<"r","a","t","e","=","a","u","d","i","o","/","L","2","4">>,
      <<"c","o","d","e","c","=","p","c","m">>,
      <<"r","a","t","e","=","-","1">> }

MimeTypes == {Join(segs, ";") : segs \in SeqsUpTo(MimeSegments, MaxSegments)}

Payloads == {[i \in 1..n |-> 85 * i] : n \in 0..MaxPayload}

-----------------------------------------------------------------------------
(* generate and __main__: one run of the program *)

\* "Speaker 1", "Speaker 2": the defaults of lines 211-214
DefaultSpeaker1 == <<"S","p","e","a","k","e","r"," ","1">>
DefaultSpeaker2 == <<"S","p","e","a","k","e","r"," ","2">>

\* Path(script_path).stem of the script path given on the command line
ScriptStem == <<"s","c","e","n","e">>

\* the media types of the Binary chunks of the model
AudioWav == <<"a","u","d","i","o","/","w","a","v">>
AudioMpeg == <<"a","u","d","i","o","/","m","p","e","g">>
AudioL16 ==
    <<"a","u","d","i","o","/","L","1","6",";","r","a","t","e","=",
      "2","4","0","0","0">>
AudioL16BadRate ==
    <<"a","u","d","i","o","/","L","1","6",";","r","a","t","e","=","-","1">>

DotWav == <<".","w","a","v">>
DotMp3 == <<".","m","p","3">>

\* mimetypes.guess_extension on the media types of the model: "audio/mpeg"
\* is ".mp3"; a type with parameters is not in the table
guess_extension(mime) == IF mime = AudioMpeg THEN DotMp3 ELSE None

\* line 288
FileExtension(mime) ==
    IF guess_extension(mime) # None THEN guess_extension(mime) ELSE DotWav

\* save_binary_file opening the file with "ab": data is added to the file
save_binary_file_Append(files, path, data) ==
    IF path \in DictKeys(files)
    THEN DictSet(files, path, DictGet(files, path) \o data)
    ELSE DictSet(files, path, data)

\* open(file_name, "wb").write(data): the file is created or replaced
save_binary_file(files, path, data) == DictSet(files, path, data)

\* lines 188-203
FileName(out, names) ==
    IF out # None THEN out
    ELSE IF names[1] # None /\ names[2] # None
    THEN Replace(Lower(names[1]), " ", "_") \o <<"_">>
         \o Replace(Lower(names[2]), " ", "_")
    ELSE ScriptStem

\* lines 245-264
SpeakerVoiceConfigs(s1, s2, voices) ==
    <<[speaker |-> s1, voice_name |-> DictGet(voices, s1)],
      [speaker |-> s2, voice_name |-> DictGet(voices, s2)]>>

\* what the loop body does with one chunk, lines 281-294: the bytes it
\* hands to save_binary_file, "skip" for a chunk without a write, or
\* "struct.error" when convert_to_wav raises
ChunkEffect(c) ==
    IF c.kind # "binary" THEN [status |-> "skip", data |-> <<>>]
    ELSE IF c.mime # AudioWav THEN convert_to_wav(c.data, c.mime)
    ELSE [status |-> "ok", data |-> c.data]

-----------------------------------------------------------------------------
(* the inputs of a run in the model *)

RunScripts ==
    { <<"A",":","x","\n","b",":","y">>,
      <<"A",":","x">>,
      <<"x">>,
      DefaultSpeaker2 \o <<":","x">>,
      DefaultSpeaker1 \o <<":","x">> }

OutputNames == {None, <<"o","u","t">>}

Puck == get_available_voices[2][1]
Kore == get_available_voices[4][1]

RunResponses(s1, s2) ==
    { <<>>,
      s1 \o <<":", " ">> \o Puck \o <<"\n">> \o s2 \o <<":", " ">> \o Puck,
      s1 \o <<":", " ">> \o Lower(Kore) \o <<"\n">> \o s2 \o <<":", " ", "?">> }

RunChunks ==
    { [kind |-> "empty", data |-> <<>>, mime |-> <<>>],
      [kind |-> "text", data |-> <<>>, mime |-> <<>>],
      [kind |-> "binary", data |-> <<1>>, mime |-> AudioWav],
      [kind |-> "binary", data |-> <<2, 3>>, mime |-> AudioL16],
      [kind |-> "binary", data |-> <<4>>, mime |-> AudioMpeg],
      [kind |-> "binary", data |-> <<5>>, mime |-> AudioL16BadRate] }

-----------------------------------------------------------------------------
(* Specifications *)

idleExtract == e_text = <<>> /\ e_result = NotRun
idleVoices ==
    /\ catalog = <<>> /\ speaker1_name = <<>> /\ speaker2_name = <<>>
    /\ response = <<>>
    /\ selected = [status |-> "notrun", voices |-> EmptyDict]
idleMime ==
    /\ mime_type = <<>> /\ audio_data = <<>>
    /\ parameters = [status |-> "notrun", bits_per_sample |-> 0, rate |-> 0]
    /\ wav = [status |-> "notrun", data |-> <<>>]
idleRun ==
    /\ pc = "idle" /\ api_key = FALSE /\ file_exists = FALSE
    /\ output_file = None /\ user_prompt = <<>>
    /\ speaker1 = None /\ speaker2 = None /\ file_name = None
    /\ speaker_voices = [status |-> "notrun", voices |-> EmptyDict]
    /\ speaker_voice_configs = <<>>
    /\ disk = <<>> /\ writes = <<>> /\ chunks = <<>>
    /\ exit_code = -1 /\ outcome = "running" /\ calls = <<>>

\* extract_speakers applied to every text of the model
InitExtract ==
    /\ e_text \in ScriptTexts
    /\ e_result = NotRun
    /\ idleVoices /\ idleMime /\ idleRun

ExtractSpeakers ==
    /\ e_result = NotRun
    /\ e_result' = extract_speakers(e_text)
    /\ UNCHANGED <<e_text, voiceVars, mimeVars, runVars>>

NextExtract == ExtractSpeakers

SpecExtract == InitExtract /\ [][NextExtract]_vars

\* select_voices_for_speakers applied to every catalog, pair of speaker
\* names and response of the model
InitVoices ==
    /\ catalog \in Catalogs
    /\ speaker1_name \in SpeakerNames
    /\ speaker2_name \in SpeakerNames
    /\ response \in Responses(catalog, speaker1_name, speaker2_name)
    /\ selected = [status |-> "notrun", voices |-> EmptyDict]
    /\ idleExtract /\ idleMime /\ idleRun

SelectVoices ==
    /\ selected.status = "notrun"
    /\ selected' = select_voices_for_speakers(catalog, response,
                                              speaker1_name, speaker2_name)
    /\ UNCHANGED <<catalog, speaker1_name, speaker2_name, response,
                   extractVars, mimeVars, runVars>>

NextVoices == SelectVoices

SpecVoices == InitVoices /\ [][NextVoices]_vars

\* the same with the catalog of the program alone
InitVoicesDeployed ==
    /\ catalog = get_available_voices
    /\ speaker1_name \in SpeakerNames
    /\ speaker2_name \in SpeakerNames
    /\ response \in Responses(catalog, speaker1_name, speaker2_name)
    /\ selected = [status |-> "notrun", voices |-> EmptyDict]
    /\ idleExtract /\ idleMime /\ idleRun

SpecVoicesDeployed == InitVoicesDeployed /\ [][NextVoices]_vars

\* parse_audio_mime_type and convert_to_wav applied to every media type and
\* payload of the model
InitMime ==
    /\ mime_type \in MimeTypes
    /\ audio_data \in Payloads
    /\ parameters = [status |-> "notrun", bits_per_sample |-> 0, rate |-> 0]
    /\ wav = [status |-> "notrun", data |-> <<>>]
    /\ idleExtract /\ idleVoices /\ idleRun

ParseMime ==
    /\ parameters.status = "notrun"
    /\ parameters' = LET p == parse_audio_mime_type(mime_type)
                     IN  [status |-> "ok",
                          bits_per_sample |-> p.bits_per_sample,
                          rate |-> p.rate]
    /\ UNCHANGED <<mime_type, audio_data, wav, extractVars, voiceVars, runVars>>

ConvertToWav ==
    /\ parameters.status = "ok"
    /\ wav.status = "notrun"
    /\ wav' = convert_to_wav(audio_data, mime_type)
    /\ UNCHANGED <<mime_type, audio_data, parameters, extractVars, voiceVars,
                   runVars>>

NextMime == ParseMime \/ ConvertToWav

SpecMime == InitMime /\ [][NextMime]_vars

\* one run of the program, from __main__ to the end of the process
InitRun ==
    /\ pc = "main"
    /\ api_key \in BOOLEAN
    /\ file_exists \in BOOLEAN
    /\ output_file \in OutputNames
    /\ user_prompt = <<>>
    /\ speaker1 = None /\ speaker2 = None /\ file_name = None
    /\ speaker_voices = [status |-> "notrun", voices |-> EmptyDict]
    /\ speaker_voice_configs = <<>>
    /\ disk = EmptyDict /\ writes = <<>> /\ chunks = <<>>
    /\ exit_code = -1 /\ outcome = "running" /\ calls = <<>>
    /\ idleExtract /\ idleVoices /\ idleMime

\* the process ends with this exit code
Exit(code, why) ==
    /\ pc' = "exited"
    /\ exit_code' = code
    /\ outcome' = why

\* lines 363-375: the credential check, then generate
Main ==
    /\ pc = "main"
    /\ IF ~api_key
       THEN Exit(1, "no_key")
       ELSE pc' = "generate" /\ UNCHANGED <<exit_code, outcome>>
    /\ UNCHANGED <<api_key, file_exists, output_file, user_prompt, speaker1,
                   speaker2, file_name, speaker_voices,
                   speaker_voice_configs, disk, writes, chunks, calls,
                   extractVars, voiceVars, mimeVars>>

\* lines 177-179: the script file is missing, generate prints and returns
GenerateNoFile ==
    /\ pc = "generate"
    /\ ~file_exists
    /\ Exit(0, "no_file")
    /\ UNCHANGED <<api_key, file_exists, output_file, user_prompt, speaker1,
                   speaker2, file_name, speaker_voices,
                   speaker_voice_configs, disk, writes, chunks, calls,
                   extractVars, voiceVars, mimeVars>>

\* lines 181-216: read the script, name the output, name the speakers
GenerateRead ==
    /\ pc = "generate"
    /\ file_exists
    /\ \E text \in RunScripts :
          LET names == extract_speakers(text)
          IN  /\ user_prompt' = text
              /\ file_name' = FileName(output_file, names)
              /\ speaker1' = IF names[1] = None THEN DefaultSpeaker1
                             ELSE names[1]
              /\ speaker2' = IF names[2] = None THEN DefaultSpeaker2
                             ELSE names[2]
    /\ pc' = "select"
    /\ UNCHANGED <<api_key, file_exists, output_file, speaker_voices,
                   speaker_voice_configs, disk, writes, chunks, exit_code,
                   outcome, calls, extractVars, voiceVars, mimeVars>>

\* lines 219-228: the suggestion service answers and the voices are chosen
RunSelectVoices ==
    /\ pc = "select"
    /\ \E r \in RunResponses(speaker1, speaker2) :
          speaker_voices' =
              select_voices_for_speakers(get_available_voices, r,
                                         speaker1, speaker2)
    /\ calls' = Append(calls, "suggestion")
    /\ IF speaker_voices'.status = "ok"
       THEN pc' = "request" /\ UNCHANGED <<exit_code, outcome>>
       ELSE Exit(1, speaker_voices'.status)
    /\ UNCHANGED <<api_key, file_exists, output_file, user_prompt, speaker1,
                   speaker2, file_name, speaker_voice_configs, disk, writes,
                   chunks, extractVars, voiceVars, mimeVars>>

\* line 113: the call of the suggestion service raises
SuggestionFails ==
    /\ pc = "select"
    /\ calls' = Append(calls, "suggestion")
    /\ Exit(1, "transport")
    /\ UNCHANGED <<api_key, file_exists, output_file, user_prompt, speaker1,
                   speaker2, file_name, speaker_voices,
                   speaker_voice_configs, disk, writes, chunks,
                   extractVars, voiceVars, mimeVars>>

\* lines 231-280: the request with its two speaker voice configurations,
\* and the call of the generation service
BuildRequest ==
    /\ pc = "request"
    /\ speaker_voice_configs' =
          SpeakerVoiceConfigs(speaker1, speaker2, speaker_voices.voices)
    /\ calls' = Append(calls, "generation")
    /\ pc' = "stream"
    /\ UNCHANGED <<api_key, file_exists, output_file, user_prompt, speaker1,
                   speaker2, file_name, speaker_voices, disk, writes, chunks,
                   exit_code, outcome, extractVars, voiceVars, mimeVars>>

\* lines 276-294: the loop body at the next chunk of the stream
StreamChunk ==
    /\ pc = "stream"
    /\ Len(chunks) < MaxChunks
    /\ \E c \in RunChunks :
          LET e == ChunkEffect(c)
              path == file_name \o FileExtension(c.mime)
          IN  /\ chunks' = Append(chunks, c)
              /\ IF e.status = "ok"
                 THEN /\ disk' = save_binary_file(disk, path, e.data)
                      /\ writes' = Append(writes,
                                          [chunk |-> Len(chunks) + 1,
                                           path |-> path,
                                           data |-> e.data])
                 ELSE UNCHANGED <<disk, writes>>
              /\ IF e.status = "struct.error"
                 THEN Exit(1, "struct.error")
                 ELSE UNCHANGED <<pc, exit_code, outcome>>
    /\ UNCHANGED <<api_key, file_exists, output_file, user_prompt, speaker1,
                   speaker2, file_name, speaker_voices,
                   speaker_voice_configs, calls, extractVars, voiceVars,
                   mimeVars>>

\* line 276: fetching the next chunk raises
StreamFails ==
    /\ pc = "stream"
    /\ Exit(1, "transport")
    /\ UNCHANGED <<api_key, file_exists, output_file, user_prompt, speaker1,
                   speaker2, file_name, speaker_voices,
                   speaker_voice_configs, disk, writes, chunks, calls,
                   extractVars, voiceVars, mimeVars>>

\* the stream ends: the loop is over, generate returns, the process ends
StreamEnd ==
    /\ pc = "stream"
    /\ Exit(0, "completed")
    /\ UNCHANGED <<api_key, file_exists, output_file, user_prompt, speaker1,
                   speaker2, file_name, speaker_voices,
                   speaker_voice_configs, disk, writes, chunks, calls,
                   extractVars, voiceVars, mimeVars>>

NextRun ==
    \/ Main
    \/ GenerateNoFile
    \/ GenerateRead
    \/ RunSelectVoices
    \/ SuggestionFails
    \/ BuildRequest
    \/ StreamChunk
    \/ StreamFails
    \/ StreamEnd

SpecRun == InitRun /\ [][NextRun]_vars

-----------------------------------------------------------------------------
(* Properties of extract_speakers, under SpecExtract *)

\* the name a line gives: the text before its first colon, trimmed
NameOf(line) == Strip(Split1(line, ":")[1])

\* the lines of a text that name a speaker
NamingLines(lines) ==
    {i \in 1..Len(lines) : ":" \in Range(lines[i]) /\ NameOf(lines[i]) # <<>>}

Least(S) == CHOOSE i \in S : \A j \in S : i <= j
Greatest(S) == CHOOSE i \in S : \A j \in S : j <= i

\* the first name of a text, and the first name different from it
FirstName(lines) ==
    IF NamingLines(lines) = {} THEN None
    ELSE NameOf(lines[Least(NamingLines(lines))])
SecondName(lines) ==
    LET rest == {i \in NamingLines(lines) :
                    NameOf(lines[i]) # FirstName(lines)}
    IN  IF rest = {} THEN None ELSE NameOf(lines[Least(rest)])

\* C4: extract_speakers returns the first two distinct non-empty trimmed
\* names that stand before the first colon of a line, in order of first
\* appearance, whatever follows them; with fewer than two such names it
\* returns the names found, padded with None.
C4_FirstTwoNames ==
    e_result # NotRun =>
        e_result = <<FirstName(SplitLines(e_text)),
                     SecondName(SplitLines(e_text))>>

\* C4 witness: two names were returned, the first of them is named again
\* after the second, and a third name stands on a later line.
C4_Witness ==
    /\ e_result # NotRun
    /\ e_result[1] # None /\ e_result[2] # None
    /\ LET lines == SplitLines(e_text)
           second == Least({i \in NamingLines(lines) :
                               NameOf(lines[i]) = e_result[2]})
       IN  /\ \E i \in NamingLines(lines) :
                 i > second /\ NameOf(lines[i]) = e_result[1]
           /\ \E i \in NamingLines(lines) :
                 i > second /\ NameOf(lines[i]) \notin {e_result[1], e_result[2]}

-----------------------------------------------------------------------------
(* Properties of select_voices_for_speakers, under SpecVoices *)

VoiceOf(speaker) == DictGet(selected.voices, speaker)

\* two speakers: names that differ, also when letter case is ignored
TwoSpeakers == Lower(speaker1_name) # Lower(speaker2_name)

\* C1: whenever the catalog has at least two entries, the mapping returned
\* gives the two speakers different voices, whether the voices come from
\* the response or from the fallback.
C1_DistinctVoices ==
    (selected.status = "ok" /\ Len(catalog) >= 2 /\ TwoSpeakers)
    => VoiceOf(speaker1_name) # VoiceOf(speaker2_name)

\* C2: for every response and every non-empty catalog the function returns
\* a mapping that has both speaker names as keys, each with the name of a
\* catalog entry; no parse failure ends in an error or a missing key.
C2_FullyPopulated ==
    (selected.status # "notrun" /\ TwoSpeakers) =>
        /\ selected.status = "ok"
        /\ {speaker1_name, speaker2_name} \subseteq DictKeys(selected.voices)
        /\ \A s \in {speaker1_name, speaker2_name} :
              VoiceOf(s) \in Range(voice_names(catalog))

\* C2 for a catalog that has a male voice: the mapping is fully populated.
C2_FullyPopulatedWithMaleVoice ==
    (selected.status # "notrun" /\ male_voices(catalog) # <<>>) =>
        /\ selected.status = "ok"
        /\ {speaker1_name, speaker2_name} \subseteq DictKeys(selected.voices)
        /\ \A s \in {speaker1_name, speaker2_name} :
              VoiceOf(s) \in Range(voice_names(catalog))

\* the lines of the response
SuggestionLines == Split(Strip(response), "\n")

\* the lines of the response that are a speaker's own: the text before the
\* first colon is the speaker's name, as written or in another letter case
\* (and then not the other speaker's name as written)
OwnLines(speaker, other) ==
    {i \in 1..Len(SuggestionLines) :
        /\ ":" \in Range(SuggestionLines[i])
        /\ LET n == Split1(SuggestionLines[i], ":")[1]
           IN  n = speaker \/ (Lower(n) = Lower(speaker) /\ n # other)}

\* the catalog's spelling of the voice a line names, None if it has none
NamedVoice(line) ==
    LET token == Strip(Split1(line, ":")[2])
        hits == {i \in 1..Len(catalog) :
                    Lower(catalog[i][1]) = Lower(token)}
    IN  IF hits = {} THEN None ELSE catalog[Least(hits)][1]

\* the response has one line per speaker, and the two lines name two
\* distinct catalog voices: lines i and j
WellFormed(i, j) ==
    /\ OwnLines(speaker1_name, speaker2_name) = {i}
    /\ OwnLines(speaker2_name, speaker1_name) = {j}
    /\ NamedVoice(SuggestionLines[i]) # None
    /\ NamedVoice(SuggestionLines[j]) # None
    /\ NamedVoice(SuggestionLines[i]) # NamedVoice(SuggestionLines[j])

FollowsSuggestion(i, j) ==
    /\ selected.status = "ok"
    /\ {speaker1_name, speaker2_name} \subseteq DictKeys(selected.voices)
    /\ VoiceOf(speaker1_name) = NamedVoice(SuggestionLines[i])
    /\ VoiceOf(speaker2_name) = NamedVoice(SuggestionLines[j])

\* C3: for two distinct speaker names and a response with one line
\* 'SpeakerName: VoiceName' per speaker naming two distinct catalog voices
\* in any letter case, each speaker gets the voice of its own line in the
\* catalog's spelling, and no fallback voice.
C3_FollowsSuggestion ==
    (selected.status # "notrun" /\ speaker1_name # speaker2_name) =>
        \A i, j \in 1..Len(SuggestionLines) :
            WellFormed(i, j) => FollowsSuggestion(i, j)

\* C3 for two names that differ in more than letter case: the suggestion
\* is followed.
C3_FollowsSuggestionCaseDistinct ==
    (selected.status # "notrun" /\ TwoSpeakers) =>
        \A i, j \in 1..Len(SuggestionLines) :
            WellFormed(i, j) => FollowsSuggestion(i, j)

-----------------------------------------------------------------------------
(* Properties of parse_audio_mime_type and convert_to_wav, under SpecMime *)

\* the ';'-separated segments of a media type, trimmed
SegmentsOf(mime) == LET parts == Split(mime, ";")
                    IN  [i \in 1..Len(parts) |-> Strip(parts[i])]

IsRateSegment(seg) == StartsWith(Lower(seg), RateEq)

\* the segments that give a rate, and those that give a bit depth: every
\* segment that contains "audio/L", or only those that are no rate segment
RateSegments(segs) ==
    {i \in 1..Len(segs) :
        IsRateSegment(segs[i]) /\ ParseInt(Split1(segs[i], "=")[2]).ok}
BitsSegmentsAny(segs) ==
    {i \in 1..Len(segs) :
        Contains(segs[i], AudioL) /\ ParseInt(Split1(segs[i], "L")[2]).ok}
BitsSegments(segs) ==
    {i \in 1..Len(segs) :
        /\ ~IsRateSegment(segs[i])
        /\ Contains(segs[i], AudioL)
        /\ ParseInt(Split1(segs[i], "L")[2]).ok}

LastRate(segs) ==
    LET S == RateSegments(segs)
    IN  IF S = {} THEN DefaultRate
        ELSE ParseInt(Split1(segs[Greatest(S)], "=")[2]).value
LastBits(segs, S) ==
    IF S = {} THEN DefaultBitsPerSample
    ELSE ParseInt(Split1(segs[Greatest(S)], "L")[2]).value

\* C9 as claimed: the rate is the value of the last 'rate=' segment that
\* parses, else 24000; the bit depth is the value of the last segment that
\* contains 'audio/L' and whose text after 'L' parses, else 16.
C9_LastParsedSegments ==
    parameters.status # "notrun" =>
        LET segs == SegmentsOf(mime_type)
        IN  /\ parameters.status = "ok"
            /\ parameters.rate = LastRate(segs)
            /\ parameters.bits_per_sample
                  = LastBits(segs, BitsSegmentsAny(segs))

\* C9 (amended): as C9, with the bit depth taken from the last segment
\* that is not a 'rate=' segment, contains 'audio/L' and parses.
C9_LastParsedSegmentsNoRate ==
    parameters.status # "notrun" =>
        LET segs == SegmentsOf(mime_type)
        IN  /\ parameters.status = "ok"
            /\ parameters.rate = LastRate(segs)
            /\ parameters.bits_per_sample
                  = LastBits(segs, BitsSegments(segs))

\* C9 witness: a rate segment that parses is followed by one that does not,
\* the bit depth is given, and the result keeps the parsed rate.
C9_Witness ==
    LET segs == SegmentsOf(mime_type)
    IN  /\ parameters.status = "ok"
        /\ RateSegments(segs) # {}
        /\ \E i \in 1..Len(segs) :
              i > Greatest(RateSegments(segs)) /\ IsRateSegment(segs[i])
        /\ BitsSegments(segs) # {}
        /\ parameters.rate # DefaultRate
        /\ parameters.bits_per_sample # DefaultBitsPerSample

\* the fields of a WAV header, read back from its bytes
U16At(b, i) == b[i] + 256 * b[i + 1]
U32At(b, i) == b[i] + 256 * b[i + 1] + 65536 * b[i + 2] + 16777216 * b[i + 3]

\* C8: for a bit depth that is not a multiple of 8, convert_to_wav reports
\* an error and returns no WAV bytes; for one that is, the header it
\* returns has blockAlign = bits/8, byteRate = rate * blockAlign,
\* chunkSize = 36 + the payload's length and dataSize = the payload's
\* length.
C8_BitDepthChecked ==
    wav.status # "notrun" =>
        IF parameters.bits_per_sample % 8 # 0
        THEN wav.status # "ok" /\ wav.data = <<>>
        ELSE wav.status = "ok" =>
                /\ U16At(wav.data, 33) = parameters.bits_per_sample \div 8
                /\ U32At(wav.data, 29)
                      = parameters.rate * U16At(wav.data, 33)
                /\ U32At(wav.data, 5) = 36 + Len(audio_data)
                /\ U32At(wav.data, 41) = Len(audio_data)

\* C8, the header alone: whenever convert_to_wav returns bytes, they are
\* the 44-byte header with blockAlign = bits \div 8, byteRate = rate *
\* blockAlign, chunkSize = 36 + the payload's length and dataSize = the
\* payload's length, followed by the payload.
C8_HeaderFields ==
    wav.status = "ok" =>
        /\ Len(wav.data) = 44 + Len(audio_data)
        /\ SubSeq(wav.data, 45, Len(wav.data)) = audio_data
        /\ U16At(wav.data, 35) = parameters.bits_per_sample
        /\ U32At(wav.data, 25) = parameters.rate
        /\ U16At(wav.data, 33) = parameters.bits_per_sample \div 8
        /\ U32At(wav.data, 29) = parameters.rate * U16At(wav.data, 33)
        /\ U32At(wav.data, 5) = 36 + Len(audio_data)
        /\ U32At(wav.data, 41) = Len(audio_data)

-----------------------------------------------------------------------------
(* Properties of a run of the program, under SpecRun *)

\* generate has named the two speakers
SpeakersNamed ==
    \/ pc \in {"select", "request", "stream"}
    \/ pc = "exited" /\ outcome \notin {"no_key", "no_file"}

\* C10: after the defaults "Speaker 1" and "Speaker 2" have replaced the
\* missing names, the two names given to select_voices_for_speakers and to
\* the two speaker voice configurations are not None and differ, so the
\* voice mapping has two keys.
C10_TwoSpeakerNames ==
    SpeakersNamed =>
        /\ speaker1 # None /\ speaker2 # None
        /\ speaker1 # speaker2
        /\ speaker_voices.status = "ok" => Len(speaker_voices.voices) = 2
        /\ Len(speaker_voice_configs) = 2 =>
              speaker_voice_configs[1].speaker
                  # speaker_voice_configs[2].speaker

\* C7: the exit code is 0 only when the streaming loop ran to its end; with
\* the credential absent, the script file missing or a transport call
\* failing it is not 0, and in the first two cases no collaborator was
\* called.
C7_ExitCodes ==
    pc = "exited" =>
        /\ exit_code = 0 => outcome = "completed"
        /\ (~api_key \/ ~file_exists \/ outcome = "transport") =>
              exit_code # 0
        /\ (~api_key \/ ~file_exists) => calls = <<>>

\* the positions of the Binary chunks among the chunks streamed so far
BinaryChunks ==
    SelectSeq([i \in 1..Len(chunks) |-> i],
              LAMBDA i : chunks[i].kind = "binary")

\* C6: the loop takes the chunks in order and writes one file per Binary
\* chunk, none for a Text or an empty chunk; a chunk that is not WAV is
\* written as the 44-byte header followed by its payload, a WAV chunk byte
\* for byte.
C6_OneWritePerBinaryChunk ==
    /\ Len(writes) = Len(BinaryChunks)
    /\ \A k \in 1..Len(writes) :
          LET c == chunks[BinaryChunks[k]]
              written == writes[k].data
          IN  /\ writes[k].chunk = BinaryChunks[k]
              /\ IF c.mime = AudioWav
                 THEN written = c.data
                 ELSE /\ Len(written) = 44 + Len(c.data)
                      /\ SubSeq(written, 45, Len(written)) = c.data

WritesTo(p) == {k \in 1..Len(writes) : writes[k].path = p}

=============================================================================
